---------------------------- MODULE Spec2Model ----------------------------
(***************************************************************************)
(* A model of src/botScript.py: the photo-submission bot.  Submitters send *)
(* photos (single or albums), optionally attach a caption or a poll, the   *)
(* owner approves or disapproves, approved submissions go to the channel.  *)
(*                                                                         *)
(* Text is modelled as a sequence of one-character strings, so that        *)
(* parse_poll is computed the way the code computes it (strip, regular     *)
(* expression, split, strip, filter).                                      *)
(*                                                                         *)
(* Absent dictionary keys: every value the code stores under the keys      *)
(* image_file_ids, caption, poll_options is truthy (a non-empty list or    *)
(* string), so the empty sequence stands for "key absent"; file ids are    *)
(* positive numbers and 0 stands for "no image_file_id".  The keys         *)
(* image_item / image_items are only ever written by the code, never read  *)
(* or cleared, and are left out.                                           *)
(***************************************************************************)
EXTENDS Integers, Sequences, FiniteSets, TLC

(***************************************************************************)
(* Bounds of the model.                                                    *)
(***************************************************************************)
\* photo events (single photos and album items together) in one behaviour
MaxPhotos == 3
\* approval ids handed out in one behaviour (uuid4 never repeats)
MaxApprovals == 2
\* '|'-separated segments after the question in a generated /poll text
MaxSegs == 3
\* '|'-separated segments of a /poll text with many options
MaxOptions == 11

(***************************************************************************)
(* Characters and strings.                                                 *)
(***************************************************************************)
SP == " "
NL == "\n"
BAR == "|"

\* str.strip() and \s in the regular expression: whitespace
IsSpace(c) == c \in {SP, NL}

\* re.I: case folding of the letters of the command token
Lower(c) ==
    CASE c = "P" -> "p"
      [] c = "O" -> "o"
      [] c = "L" -> "l"
      [] OTHER -> c

RECURSIVE LStrip(_)
LStrip(s) ==
    IF s = <<>> THEN <<>>
    ELSE IF IsSpace(Head(s)) THEN LStrip(Tail(s))
    ELSE s

RECURSIVE RStrip(_)
RStrip(s) ==
    IF s = <<>> THEN <<>>
    ELSE IF IsSpace(s[Len(s)]) THEN RStrip(SubSeq(s, 1, Len(s) - 1))
    ELSE s

\* str.strip()
Strip(s) == RStrip(LStrip(s))

\* the longest prefix of s made of non-whitespace characters, dropped: \S+
RECURSIVE DropNonSpace(_)
DropNonSpace(s) ==
    IF s = <<>> THEN <<>>
    ELSE IF IsSpace(Head(s)) THEN s
    ELSE DropNonSpace(Tail(s))

\* str.split('|'): the segments between the bars, at least one
RECURSIVE SplitBar(_)
SplitBar(s) ==
    IF \A i \in 1..Len(s) : s[i] # BAR THEN <<s>>
    ELSE LET i == CHOOSE j \in 1..Len(s) :
                      s[j] = BAR /\ \A k \in 1..(j - 1) : s[k] # BAR
         IN  <<SubSeq(s, 1, i - 1)>> \o SplitBar(SubSeq(s, i + 1, Len(s)))

\* [p for p in xs if p]
RECURSIVE NonEmpty(_)
NonEmpty(xs) ==
    IF xs = <<>> THEN <<>>
    ELSE IF Head(xs) = <<>> THEN NonEmpty(Tail(xs))
    ELSE <<Head(xs)>> \o NonEmpty(Tail(xs))

\* [p.strip() for p in xs]
StripAll(xs) == [i \in 1..Len(xs) |-> Strip(xs[i])]

CmdToken == <<"/", "p", "o", "l", "l">>

\* re.match(r'^/poll', s, re.I)
HasPollPrefix(s) ==
    /\ Len(s) >= Len(CmdToken)
    /\ \A i \in 1..Len(CmdToken) : Lower(s[i]) = CmdToken[i]

\* The regular expression of parse_poll, matched against the stripped text s
\* with re.I: the command token, an optional bot mention ('@' and a run of
\* non-whitespace), a whitespace run, and group 1: any characters but a line
\* break, up to the end of s.  The result is <<matched, group1>>.
\* '.' does not match a line break and '$' matches only at the end (s is
\* stripped, so it has no final line break): the match exists iff what
\* follows the command token, the mention and the whitespace run holds no
\* line break.  Backtracking out of the greedy mention or whitespace run only
\* lengthens what group 1 has to match, so it never turns a failure into a
\* match.
PollRegex(s) ==
    IF ~HasPollPrefix(s) THEN <<FALSE, <<>>>>
    ELSE LET a == SubSeq(s, Len(CmdToken) + 1, Len(s))
             b == IF Len(a) >= 2 /\ a[1] = "@" /\ ~IsSpace(a[2])
                  THEN DropNonSpace(Tail(a))
                  ELSE a
             c == LStrip(b)
         IN  IF \E i \in 1..Len(c) : c[i] = NL
             THEN <<FALSE, <<>>>>
             ELSE <<TRUE, c>>

\* The result of parse_poll: <<>> for None, else <<question, options>>.
PollNone == <<>>

ParsePoll(text) ==
    IF text = <<>> THEN PollNone
    ELSE LET m == PollRegex(Strip(text))
         IN  IF ~m[1] THEN PollNone
             ELSE LET rest == Strip(m[2])
                      parts == StripAll(SplitBar(rest))
                      options == NonEmpty(Tail(parts))
                  IN  IF rest = <<>> THEN PollNone
                      ELSE IF Len(parts) < 2 THEN PollNone
                      ELSE IF Len(options) < 2 THEN PollNone
                      ELSE <<parts[1], options>>

(***************************************************************************)
(* Identities.                                                             *)
(***************************************************************************)
\* OWNER_CHAT_ID, the moderator's chat
OWNER_CHAT_ID == "o"
\* CHANNEL_ID, the public channel
CHANNEL_ID == "channel"
\* the users whose updates reach the bot; "a" and "b" are submitters
Users == {"o", "a", "b"}
\* no user: the empty side of a relay record
NoUser == "-"
\* media_group_id values of album messages; the key is (chat_id, id)
GroupIds == {"g1", "g2"}
\* uuid4() values, in the order they are drawn
Ids == 1..MaxApprovals

VARIABLES
    \* the program's state
    APPROVALS,      \* approval_id -> entry (NoEntry: no such key)
    user_data,      \* dispatcher.user_data: user -> that user's dictionary
    MEDIA_GROUPS,   \* (chat, media_group_id) -> entry object (0: no such key)
    entries,        \* the entry objects {'items', 'timer', 'user_id'} ever made
    timers,         \* the threading.Timer objects ever started
    hnd,            \* the dispatcher thread inside _buffer_media_group
    cb,             \* the approve / disapprove callbacks in flight
    nextId,         \* how many uuid4 values were drawn
    nextPhoto,      \* how many photo messages arrived
    \* what the run has done so far
    out,            \* the transport calls of the handler or timer that ran last
    pubs,           \* approval_id -> forward_to_channel calls made for its entry
    rejs,           \* approval_id -> rejection notices sent for its entry
    flushed,        \* the groups _process_media_group stored in user_data
    arrived,        \* group key -> file ids appended for it, in arrival order
    inWindow,       \* group key -> every item so far came within the window
    \* the argument and the result of a direct call of parse_poll
    pollArg,
    pollRes

progVars == <<APPROVALS, user_data, MEDIA_GROUPS, entries, timers, hnd, cb,
              nextId, nextPhoto>>
obsVars == <<out, pubs, rejs, flushed, arrived, inWindow>>
pollVars == <<pollArg, pollRes>>
vars == <<progVars, obsVars, pollVars>>

(***************************************************************************)
(* Values.                                                                 *)
(***************************************************************************)
\* APPROVALS has no such key
NoEntry == [kind |-> "none", file_ids |-> <<>>, caption |-> <<>>,
            poll |-> <<>>, submitter |-> NoUser]

\* contact_target / contact_source absent
NoContact == [approval_id |-> 0, peer |-> NoUser]

\* an empty per-user dictionary
EmptyUserData ==
    [image_file_ids |-> <<>>, image_file_id |-> 0, caption |-> <<>>,
     poll_options |-> <<>>, poll_question |-> <<>>,
     contact_target |-> NoContact, contact_source |-> NoContact]

\* the dispatcher thread is in no _buffer_media_group call
Idle == [pc |-> "idle", key |-> "-", item |-> 0, cap |-> <<>>, entry |-> 0,
         user |-> NoUser]

\* the threads that may run an approve / disapprove callback
Workers == 1..2

\* a worker that runs no callback
NoCall == [pc |-> "idle", op |-> "", user |-> NoUser, id |-> 0,
           approval |-> NoEntry]

\* pollRes before parse_poll was called
Unset == <<"unset">>

\* the state right after main() started polling
InitProgram ==
    /\ APPROVALS = [i \in Ids |-> NoEntry]
    /\ user_data = [u \in Users |-> EmptyUserData]
    /\ MEDIA_GROUPS = [g \in GroupIds |-> 0]
    /\ entries = <<>>
    /\ timers = <<>>
    /\ hnd = Idle
    /\ cb = [w \in Workers |-> NoCall]
    /\ nextId = 0
    /\ nextPhoto = 0
    /\ out = <<>>
    /\ pubs = [i \in Ids |-> 0]
    /\ rejs = [i \in Ids |-> 0]
    /\ flushed = <<>>
    /\ arrived = [g \in GroupIds |-> <<>>]
    /\ inWindow = [g \in GroupIds |-> TRUE]

(***************************************************************************)
(* parse_poll called on generated texts.  A text is generated from a       *)
(* command token, an optional bot mention, one space, a question and up to *)
(* MaxSegs segments, each a core with whitespace around it, so that what   *)
(* the trimmed question and the trimmed segments are is known from the     *)
(* construction and not from Strip.                                        *)
(***************************************************************************)
Cmds == { <<"/", "p", "o", "l", "l">>, <<"/", "P", "o", "L", "l">>,
          <<"p", "o", "l", "l">> }
Mentions == { <<>>, <<"@", "b">> }
Pad(l, c, r) == [lead |-> l, core |-> c, trail |-> r]
QuestionChoices ==
    { Pad(<<>>, <<>>, <<>>), Pad(<<>>, <<"Q">>, <<>>),
      Pad(<<SP>>, <<"Q">>, <<SP>>), Pad(<<>>, <<"Q">>, <<NL>>) }
SegChoices ==
    { Pad(<<>>, <<>>, <<>>), Pad(<<>>, <<"A">>, <<>>), Pad(<<>>, <<"B">>, <<>>),
      Pad(<<SP>>, <<"A">>, <<SP>>), Pad(<<SP>>, <<>>, <<>>),
      Pad(<<SP>>, <<"B">>, <<SP>>), Pad(<<NL>>, <<"B">>, <<NL>>),
      Pad(<<>>, <<"A", SP, "B">>, <<>>) }
SeqsUpTo(S, n) == UNION { [1..k -> S] : k \in 0..n }
PollInputs ==
    [cmd : Cmds, bot : Mentions, q : QuestionChoices,
     segs : SeqsUpTo(SegChoices, MaxSegs)]

Padded(p) == p.lead \o p.core \o p.trail

RECURSIVE JoinSegs(_)
JoinSegs(segs) ==
    IF segs = <<>> THEN <<>>
    ELSE <<BAR>> \o Padded(Head(segs)) \o JoinSegs(Tail(segs))

\* the text of a generated input
Render(a) == a.cmd \o a.bot \o <<SP>> \o Padded(a.q) \o JoinSegs(a.segs)

NoPollArg == [cmd |-> <<>>, bot |-> <<>>, q |-> Pad(<<>>, <<>>, <<>>),
              segs |-> <<>>]

InitPoll ==
    /\ InitProgram
    /\ pollArg \in PollInputs
    /\ pollRes = Unset

\* result = parse_poll(text)
CallParsePoll ==
    /\ pollRes = Unset
    /\ pollRes' = ParsePoll(Render(pollArg))
    /\ UNCHANGED <<progVars, obsVars, pollArg>>

NextPoll == CallParsePoll

SpecPoll == InitPoll /\ [][NextPoll]_vars

\* parse_poll called on '/poll Q|s1|...|sk' with up to MaxOptions segments,
\* each of them an option or empty
ManySegChoices == { Pad(<<>>, <<"A">>, <<>>), Pad(<<>>, <<>>, <<>>) }
ManyPollInputs ==
    [cmd : { <<"/", "p", "o", "l", "l">> }, bot : { <<>> },
     q : { Pad(<<>>, <<"Q">>, <<>>) },
     segs : SeqsUpTo(ManySegChoices, MaxOptions)]

InitPollMany ==
    /\ InitProgram
    /\ pollArg \in ManyPollInputs
    /\ pollRes = Unset

SpecPollMany == InitPollMany /\ [][NextPoll]_vars

(***************************************************************************)
(* The album assembler: _buffer_media_group runs on the dispatcher thread, *)
(* _process_media_group on the thread of a threading.Timer.  The two share *)
(* MEDIA_GROUPS and the entry objects without a lock, so each is cut into  *)
(* steps at its accesses to them.  A step is an operator from the part of  *)
(* the state it touches (the record Alb) to that part after it; the        *)
(* handler run to completion is the composition of its steps.              *)
(***************************************************************************)
\* the chat a media group is sent from: a media_group_id names one album
GroupChat == [g \in GroupIds |-> "a"]

Alb == [mg |-> MEDIA_GROUPS, en |-> entries, tm |-> timers, h |-> hnd,
        np |-> nextPhoto, ud |-> user_data, out |-> out]

SetAlb(s) ==
    /\ MEDIA_GROUPS' = s.mg
    /\ entries' = s.en
    /\ timers' = s.tm
    /\ hnd' = s.h
    /\ nextPhoto' = s.np
    /\ user_data' = s.ud
    /\ out' = s.out

\* a transport call (send_message, send_photo, send_media_group, send_poll,
\* answer, edit): the chat, the kind, a tag naming the fixed text, the outcome
\* ("?": the call is wrapped in try/except and its failure changes nothing the
\* handler does next), and what it carries
BaseMsg == [to |-> "-", kind |-> "", tag |-> "", res |-> "?", media |-> <<>>,
            caption |-> <<>>, id |-> 0, controls |-> {}, options |-> <<>>]
Msg(to, kind, tag) == [BaseMsg EXCEPT !.to = to, !.kind = kind, !.tag = tag]

\* the timers started for key g, and the one started last (0: none)
TimersOf(tm, g) == {t \in 1..Len(tm) : tm[t].key = g}
LatestTimer(tm, g) ==
    IF TimersOf(tm, g) = {} THEN 0
    ELSE CHOOSE t \in TimersOf(tm, g) : \A t2 \in TimersOf(tm, g) : t2 <= t

\* a timer whose wait is over: it ran, runs or is about to run its function
Expired(st) == st \in {"fired", "popped", "read", "done"}

\* entry = MEDIA_GROUPS.get(key); if not entry: entry = {...}; MEDIA_GROUPS[key] = entry
BufLookup(s, u, g, cap) ==
    LET old == s.mg[g]
        en2 == IF old = 0
               THEN Append(s.en, [items |-> <<>>, timer |-> 0, user_id |-> u])
               ELSE s.en
        e == IF old = 0 THEN Len(en2) ELSE old
    IN  [s EXCEPT !.en = en2,
                  !.mg = [s.mg EXCEPT ![g] = e],
                  !.np = s.np + 1,
                  !.h = [pc |-> "append", key |-> g, item |-> s.np + 1,
                         cap |-> cap, entry |-> e, user |-> u],
                  !.out = <<>>]

\* entry['items'].append({'file_id': file_id, 'caption': caption, ...})
BufAppend(s) ==
    [s EXCEPT !.en = [s.en EXCEPT ![s.h.entry].items =
                          Append(@, [file_id |-> s.h.item, caption |-> s.h.cap])],
              !.h = [s.h EXCEPT !.pc = "cancel"]]

\* Timer.cancel(): sets the finished event, which stops a timer still waiting
CancelTimer(tm, t) ==
    IF t # 0 /\ tm[t].st = "waiting"
    THEN [tm EXCEPT ![t].st = "cancelled"]
    ELSE tm

\* the bug: the previous timer is left running
BufCancelSkipped(s) == [s EXCEPT !.h = [s.h EXCEPT !.pc = "start"]]

\* if entry.get('timer'): entry['timer'].cancel()
BufCancel(s) ==
    [s EXCEPT !.tm = CancelTimer(s.tm, s.en[s.h.entry].timer),
              !.h = [s.h EXCEPT !.pc = "start"]]

\* the bug: the new timer is made and recorded but never started
BufStartForgets(s) == [s EXCEPT !.h = Idle]

\* timer = threading.Timer(MEDIA_GROUP_WAIT, _process_media_group, ...);
\* entry['timer'] = timer; timer.start()
BufStart(s) ==
    LET tm2 == Append(s.tm, [key |-> s.h.key, st |-> "waiting", entry |-> 0,
                             file_ids |-> <<>>, caption |-> <<>>])
    IN  [s EXCEPT !.tm = tm2,
                  !.en = [s.en EXCEPT ![s.h.entry].timer = Len(tm2)],
                  !.h = Idle]

\* Timer.run: the wait of MEDIA_GROUP_WAIT is over and the finished event is
\* not set, so the function will be called; a cancel() from here on is too late.
TimerExpire(s, t) == [s EXCEPT !.tm = [s.tm EXCEPT ![t].st = "fired"]]

\* the bug: get instead of pop, the group stays in MEDIA_GROUPS
ProcPopKeeps(s, t) ==
    LET g == s.tm[t].key
        e == s.mg[g]
    IN  IF e = 0
        THEN [s EXCEPT !.tm = [s.tm EXCEPT ![t].st = "done"]]
        ELSE [s EXCEPT !.tm = [s.tm EXCEPT ![t].st = "popped", ![t].entry = e]]

\* entry = MEDIA_GROUPS.pop(key, None); if not entry: return
ProcPop(s, t) ==
    LET g == s.tm[t].key
        e == s.mg[g]
    IN  IF e = 0
        THEN [s EXCEPT !.tm = [s.tm EXCEPT ![t].st = "done"]]
        ELSE [s EXCEPT !.mg = [s.mg EXCEPT ![g] = 0],
                       !.tm = [s.tm EXCEPT ![t].st = "popped", ![t].entry = e]]

\* for it in items: if it.get('caption'): caption = it['caption']; break
RECURSIVE FirstCaption(_)
FirstCaption(items) ==
    IF items = <<>> THEN <<>>
    ELSE IF Head(items).caption # <<>> THEN Head(items).caption
    ELSE FirstCaption(Tail(items))

\* items = entry.get('items', []); if not items: return;
\* file_ids = [it['file_id'] for it in items]; caption = first non-empty
ProcRead(s, t) ==
    LET items == s.en[s.tm[t].entry].items
    IN  IF items = <<>>
        THEN [s EXCEPT !.tm = [s.tm EXCEPT ![t].st = "done"]]
        ELSE [s EXCEPT !.tm = [s.tm EXCEPT
                 ![t].st = "read",
                 ![t].file_ids = [i \in 1..Len(items) |-> items[i].file_id],
                 ![t].caption = FirstCaption(items)]]

\* udata['image_file_ids'] = file_ids; if caption: udata['caption'] = caption;
\* send_media_group preview and the Yes/No keyboard to the sender's chat
ProcStore(s, t) ==
    LET e == s.tm[t].entry
        u == s.en[e].user_id
        ids == s.tm[t].file_ids
        cap == s.tm[t].caption
        ud1 == [s.ud EXCEPT ![u].image_file_ids = ids]
        ud2 == IF cap # <<>> THEN [ud1 EXCEPT ![u].caption = cap] ELSE ud1
    IN  [s EXCEPT !.ud = ud2,
                  !.tm = [s.tm EXCEPT ![t].st = "done"],
                  !.out = << [Msg(GroupChat[s.tm[t].key], "album", "preview")
                                 EXCEPT !.media = ids, !.caption = cap],
                             Msg(GroupChat[s.tm[t].key], "text", "album_choice") >>]

\* the captions an album item may carry (<<>>: none)
ItemCaptions == { <<>>, <<"c">> }

albumFrame == <<APPROVALS, nextId, pubs, rejs, cb, pollVars>>
ghostVars == <<flushed, arrived, inWindow>>

(***************************************************************************)
(* The steps of the two threads as actions.  They also keep the record of  *)
(* the run that the assembler's properties are stated on: arrived (what    *)
(* was appended), flushed (what was stored in user_data) and inWindow.     *)
(* An item arrives within the window when the timer started by the         *)
(* previous item of its key has not expired, and no timer of the key       *)
(* expires while the item is being buffered.                               *)
(***************************************************************************)
BufferLookupStep(u, g, cap) ==
    /\ hnd.pc = "idle"
    /\ nextPhoto < MaxPhotos
    /\ GroupChat[g] = u
    /\ SetAlb(BufLookup(Alb, u, g, cap))
    /\ LET last == LatestTimer(timers, g)
           late == last # 0 /\ Expired(timers[last].st)
       IN  inWindow' = [inWindow EXCEPT ![g] = @ /\ ~late]
    /\ UNCHANGED <<albumFrame, flushed, arrived>>

BufferAppendStep ==
    /\ hnd.pc = "append"
    /\ SetAlb(BufAppend(Alb))
    /\ arrived' = [arrived EXCEPT ![hnd.key] = Append(@, hnd.item)]
    /\ UNCHANGED <<albumFrame, flushed, inWindow>>

BufferCancelStep ==
    /\ hnd.pc = "cancel"
    /\ SetAlb(BufCancel(Alb))
    /\ UNCHANGED <<albumFrame, ghostVars>>

BufferStartStep ==
    /\ hnd.pc = "start"
    /\ SetAlb(BufStart(Alb))
    /\ UNCHANGED <<albumFrame, ghostVars>>

TimerExpireStep(t) ==
    /\ timers[t].st = "waiting"
    /\ SetAlb(TimerExpire(Alb, t))
    /\ LET g == timers[t].key
           racing == hnd.pc # "idle" /\ hnd.key = g
       IN  inWindow' = [inWindow EXCEPT ![g] = @ /\ ~racing]
    /\ UNCHANGED <<albumFrame, flushed, arrived>>

ProcessPopStep(t) ==
    /\ timers[t].st = "fired"
    /\ SetAlb(ProcPop(Alb, t))
    /\ UNCHANGED <<albumFrame, ghostVars>>

ProcessReadStep(t) ==
    /\ timers[t].st = "popped"
    /\ SetAlb(ProcRead(Alb, t))
    /\ UNCHANGED <<albumFrame, ghostVars>>

\* flushed records what the step wrote under image_file_ids and caption
ProcessStoreStep(t) ==
    /\ timers[t].st = "read"
    /\ SetAlb(ProcStore(Alb, t))
    /\ LET u == entries[timers[t].entry].user_id
       IN  flushed' = Append(flushed,
                             [key |-> timers[t].key, user |-> u,
                              file_ids |-> user_data'[u].image_file_ids,
                              caption |-> user_data'[u].caption])
    /\ UNCHANGED <<albumFrame, arrived, inWindow>>

InitAlbum ==
    /\ InitProgram
    /\ pollArg = NoPollArg
    /\ pollRes = Unset

NextAlbum ==
    \/ \E u \in Users, g \in GroupIds, cap \in ItemCaptions :
           BufferLookupStep(u, g, cap)
    \/ BufferAppendStep
    \/ BufferCancelStep
    \/ BufferStartStep
    \/ \E t \in 1..Len(timers) : TimerExpireStep(t)
    \/ \E t \in 1..Len(timers) : ProcessPopStep(t)
    \/ \E t \in 1..Len(timers) : ProcessReadStep(t)
    \/ \E t \in 1..Len(timers) : ProcessStoreStep(t)

SpecAlbum == InitAlbum /\ [][NextAlbum]_vars

\* The album assembler with its scheduling: the dispatcher thread goes on
\* with a _buffer_media_group call it has begun, and every timer thread runs:
\* a waiting timer expires and the function of an expired timer is run to its
\* end.  The arrival of photos is left to the senders.
TimerRun(t) ==
    /\ t \in 1..Len(timers)
    /\ \/ TimerExpireStep(t)
       \/ ProcessPopStep(t)
       \/ ProcessReadStep(t)
       \/ ProcessStoreStep(t)

BufferRun == BufferAppendStep \/ BufferCancelStep \/ BufferStartStep

SpecAlbumLive ==
    /\ SpecAlbum
    /\ WF_vars(BufferRun)
    /\ \A t \in 1..MaxPhotos : WF_vars(TimerRun(t))

(***************************************************************************)
(* The handlers of the dispatcher thread.  The dispatcher runs one handler *)
(* at a time, to completion.  A handler is an operator from the part of    *)
(* the state the handlers touch (the record St) to that part after it; its *)
(* transport calls are listed in out.  A call that is not wrapped in       *)
(* try/except may raise: the handler then ends there, and out ends with    *)
(* Raised.                                                                 *)
(***************************************************************************)
St == [ap |-> APPROVALS, ud |-> user_data, nid |-> nextId,
       pubs |-> pubs, rejs |-> rejs, out |-> out]

SetSt(s) ==
    /\ APPROVALS' = s.ap
    /\ user_data' = s.ud
    /\ nextId' = s.nid
    /\ pubs' = s.pubs
    /\ rejs' = s.rejs
    /\ out' = s.out

\* an exception left the handler
Raised == Msg("-", "raise", "")
\* query.answer()
Answer(u) == [Msg(u, "answer", "") EXCEPT !.res = "ok"]
\* safe_edit_or_reply(query, text): edit the caption, else the text, else reply
Edit(u, tag) == Msg(u, "edit", tag)

\* the inline keyboards of an approval request
FullControls == {"approve", "disapprove", "reply_post", "contact_url"}
DecisionControls == {"approve", "disapprove"}

\* the bug: the finalize branches emptying the whole per-user dictionary
ClearEverything(d) == EmptyUserData

\* for k in ('image_file_ids', 'image_file_id', 'caption', 'poll_options',
\*           'poll_question'): context.user_data.pop(k, None)
ClearSubmission(d) ==
    [d EXCEPT !.image_file_ids = <<>>, !.image_file_id = 0, !.caption = <<>>,
              !.poll_options = <<>>, !.poll_question = <<>>]

\* an APPROVALS value; a single photo is kept under 'file_id', an album under
\* 'file_ids'.  The submitter dictionary is kept as the submitter's id.
Entry(kind, file_ids, caption, poll, u) ==
    [kind |-> kind, file_ids |-> file_ids, caption |-> caption, poll |-> poll,
     submitter |-> u]

\* context.bot.send_media_group(chat_id=OWNER_CHAT_ID, media=media), in try/except
OwnerAlbum(file_ids, caption) ==
    [Msg(OWNER_CHAT_ID, "album", "") EXCEPT !.media = file_ids, !.caption = caption]

\* the approval request with its keyboard: not in try/except
OwnerRequest(kind, tag, file_ids, caption, id, controls, ok) ==
    [Msg(OWNER_CHAT_ID, kind, tag) EXCEPT
        !.media = file_ids, !.caption = caption, !.id = id,
        !.controls = controls, !.res = IF ok THEN "ok" ELSE "error"]

\* The end of every finalize branch: the approval request is sent to the owner;
\* when that call raises the handler ends; otherwise the submission keys are
\* cleared and the submitter is told.
Finalize(s, u, id, entry, before, request, ok, doneTag) ==
    LET s1 == [s EXCEPT !.ap = [s.ap EXCEPT ![id] = entry], !.nid = id]
    IN  IF ok
        THEN [s1 EXCEPT !.ud = [s.ud EXCEPT ![u] = ClearSubmission(@)],
                        !.out = <<Answer(u)>> \o before \o <<request, Edit(u, doneTag)>>]
        ELSE [s1 EXCEPT !.out = <<Answer(u)>> \o before \o <<request, Raised>>]

\* button: data == 'add_caption_poll'
AddCaptionPoll(s, u) == [s EXCEPT !.out = <<Answer(u), Edit(u, "GUIDE_TEXT")>>]

\* button: data == 'no_caption_poll'
NoCaptionPoll(s, u, ok) ==
    LET d == s.ud[u]
        id == s.nid + 1
    IN  IF d.image_file_ids # <<>>
        THEN Finalize(s, u, id,
                      Entry("album", d.image_file_ids, <<>>, <<>>, u),
                      <<OwnerAlbum(d.image_file_ids, <<>>)>>,
                      OwnerRequest("text", "approval_album", <<>>, <<>>, id,
                                   FullControls, ok),
                      ok, "album_forwarded")
        ELSE IF d.image_file_id = 0
        THEN [s EXCEPT !.out = <<Answer(u), Edit(u, "no_image")>>]
        ELSE Finalize(s, u, id,
                      Entry("single", <<d.image_file_id>>, <<>>, <<>>, u),
                      <<>>,
                      OwnerRequest("photo", "approval", <<d.image_file_id>>, <<>>,
                                   id, FullControls, ok),
                      ok, "image_forwarded")

\* button: data == 'confirm_caption'
ConfirmCaption(s, u, ok) ==
    LET d == s.ud[u]
        id == s.nid + 1
    IN  IF d.image_file_ids # <<>> /\ d.caption # <<>>
        THEN Finalize(s, u, id,
                      Entry("album", d.image_file_ids, d.caption, <<>>, u),
                      <<OwnerAlbum(d.image_file_ids, d.caption)>>,
                      OwnerRequest("text", "approval_album", <<>>, <<>>, id,
                                   FullControls, ok),
                      ok, "album_caption_forwarded")
        ELSE IF d.image_file_id # 0 /\ d.caption # <<>>
        THEN Finalize(s, u, id,
                      Entry("single", <<d.image_file_id>>, d.caption, <<>>, u),
                      <<>>,
                      OwnerRequest("photo", "approval_caption", <<d.image_file_id>>,
                                   d.caption, id, DecisionControls, ok),
                      ok, "image_caption_forwarded")
        ELSE [s EXCEPT !.out = <<Answer(u)>>]

\* button: data == 'confirm_poll'.  In the single-photo branch reply_markup is
\* never assigned (the keyboard is built, InlineKeyboardMarkup is not called),
\* so evaluating the arguments of send_photo raises UnboundLocalError: the
\* entry is in APPROVALS, nothing is sent and nothing is cleared.
ConfirmPoll(s, u, ok) ==
    LET d == s.ud[u]
        id == s.nid + 1
    IN  IF d.image_file_ids # <<>> /\ d.poll_options # <<>>
        THEN Finalize(s, u, id,
                      Entry("album", d.image_file_ids, d.poll_question,
                            d.poll_options, u),
                      <<OwnerAlbum(d.image_file_ids, d.poll_question)>>,
                      OwnerRequest("text", "approval_album_poll", <<>>, <<>>, id,
                                   FullControls, ok),
                      ok, "album_poll_forwarded")
        ELSE IF d.image_file_id # 0 /\ d.poll_options # <<>>
        THEN [s EXCEPT !.ap = [s.ap EXCEPT ![id] =
                                  Entry("single", <<d.image_file_id>>,
                                        d.poll_question, d.poll_options, u)],
                       !.nid = id,
                       !.out = <<Answer(u), Raised>>]
        ELSE [s EXCEPT !.out = <<Answer(u)>>]

\* the bug: New Input submits what the session holds
NewInputSubmits(s, u) == NoCaptionPoll(s, u, TRUE)

\* button: data == 'new_input'
NewInput(s, u) == [s EXCEPT !.out = <<Answer(u), Edit(u, "GUIDE_TEXT")>>]

\* The probe of contact_post / reply_post succeeded: the owner-side and the
\* submitter-side records are written, and the acting user is told.
Establish(s, u, id, sub, probe, doneTag) ==
    LET ud1 == [s.ud EXCEPT ![u].contact_target =
                                [approval_id |-> id, peer |-> sub]]
        ud2 == [ud1 EXCEPT ![sub].contact_source =
                                [approval_id |-> id, peer |-> u]]
    IN  [s EXCEPT !.ud = ud2,
                  !.out = <<Answer(u), probe, Msg(u, "text", doneTag)>>]

\* the test message to the submitter
Probe(sub, tag, ok) ==
    [Msg(sub, "text", tag) EXCEPT !.res = IF ok THEN "ok" ELSE "error"]

\* What the test message of contact_post may do.  When it fails the except
\* clauses are evaluated in order, the first being tg_error.Forbidden: with a
\* telegram.error module that has that name the failure is reported to the
\* moderator ("error"); with one that has not (the releases that still have
\* telegram.ext.Filters and Updater) evaluating the clause raises
\* AttributeError and the handler ends there ("raise").
PingOutcomes == {"ok", "error", "raise"}

\* button: data.startswith('contact_post:')
ContactPost(s, u, id, ping) ==
    LET approval == s.ap[id]
    IN  IF approval = NoEntry
        THEN [s EXCEPT !.out = <<Answer(u), Edit(u, "not_found")>>]
        ELSE IF approval.submitter = NoUser
        THEN [s EXCEPT !.out = <<Answer(u), Edit(u, "no_submitter")>>]
        ELSE IF ping # "ok"
        THEN [s EXCEPT !.out = <<Answer(u),
                                 Probe(approval.submitter, "contact_ping", FALSE),
                                 IF ping = "raise" THEN Raised
                                 ELSE Edit(u, "contact_failed")>>]
        ELSE Establish(s, u, id, approval.submitter,
                       Probe(approval.submitter, "contact_ping", TRUE),
                       "contact_established")

\* the bug: reply_post taking the entry out of APPROVALS
ReplyPostConsumes(s, u, id, ok) ==
    LET approval == s.ap[id]
        s1 == [s EXCEPT !.ap = [s.ap EXCEPT ![id] = NoEntry]]
    IN  IF approval = NoEntry
        THEN [s EXCEPT !.out = <<Answer(u), Edit(u, "not_found")>>]
        ELSE IF approval.submitter = NoUser
        THEN [s1 EXCEPT !.out = <<Answer(u), Edit(u, "no_submitter")>>]
        ELSE IF ~ok
        THEN [s1 EXCEPT !.out = <<Answer(u),
                                  Probe(approval.submitter, "reply_ping", FALSE),
                                  Edit(u, "reply_failed")>>]
        ELSE Establish(s1, u, id, approval.submitter,
                       Probe(approval.submitter, "reply_ping", TRUE),
                       "reply_established")

\* the bug: reply_post without the check for a missing entry
ReplyPostUnchecked(s, u, id, ok) ==
    LET approval == s.ap[id]
    IN  IF approval.submitter = NoUser
        THEN [s EXCEPT !.out = <<Answer(u), Edit(u, "no_submitter")>>]
        ELSE IF ~ok
        THEN [s EXCEPT !.out = <<Answer(u),
                                 Probe(approval.submitter, "reply_ping", FALSE),
                                 Edit(u, "reply_failed")>>]
        ELSE Establish(s, u, id, approval.submitter,
                       Probe(approval.submitter, "reply_ping", TRUE),
                       "reply_established")

\* button: data.startswith('reply_post:')
ReplyPost(s, u, id, ok) ==
    LET approval == s.ap[id]
    IN  IF approval = NoEntry
        THEN [s EXCEPT !.out = <<Answer(u), Edit(u, "not_found")>>]
        ELSE IF approval.submitter = NoUser
        THEN [s EXCEPT !.out = <<Answer(u), Edit(u, "no_submitter")>>]
        ELSE IF ~ok
        THEN [s EXCEPT !.out = <<Answer(u),
                                 Probe(approval.submitter, "reply_ping", FALSE),
                                 Edit(u, "reply_failed")>>]
        ELSE Establish(s, u, id, approval.submitter,
                       Probe(approval.submitter, "reply_ping", TRUE),
                       "reply_established")

\* What the transport does to the send_poll calls of one forward_to_channel
\* call: it times out a number of times, then succeeds or fails otherwise.
PollEnvs == [timeouts : 0..3, then : {"ok", "error"}]
\* send_poll is called for an entry with a poll only: for any other entry
\* what the transport would do to it makes no difference
EnvsOf(approval) ==
    IF approval.poll # <<>> THEN PollEnvs
    ELSE {[timeouts |-> 0, then |-> "ok"]}
PollOutcome(env, attempt) ==
    IF attempt <= env.timeouts THEN "timeout" ELSE env.then

\* the bug: send_poll is tried again after any failure
RECURSIVE PollAttemptsRetryAll(_, _, _, _)
PollAttemptsRetryAll(question, options, env, attempt) ==
    IF attempt > 3 THEN <<>>
    ELSE LET call == [Msg(CHANNEL_ID, "poll", "") EXCEPT
                         !.caption = question, !.options = options,
                         !.res = PollOutcome(env, attempt)]
         IN  IF PollOutcome(env, attempt) # "ok"
             THEN <<call>> \o PollAttemptsRetryAll(question, options, env,
                                                   attempt + 1)
             ELSE <<call>>

\* for attempt in range(3): send_poll; break on success and on an error other
\* than TimedOut, go on after TimedOut
RECURSIVE PollAttempts(_, _, _, _)
PollAttempts(question, options, env, attempt) ==
    IF attempt > 3 THEN <<>>
    ELSE LET call == [Msg(CHANNEL_ID, "poll", "") EXCEPT
                         !.caption = question, !.options = options,
                         !.res = PollOutcome(env, attempt)]
         IN  IF PollOutcome(env, attempt) = "timeout"
             THEN <<call>> \o PollAttempts(question, options, env, attempt + 1)
             ELSE <<call>>

\* the bug: the poll is sent to the channel before the media
ForwardPollFirst(isAlbum, file_ids, caption, poll_question, poll_options, env) ==
    LET media == [Msg(CHANNEL_ID, IF isAlbum THEN "album" ELSE "photo", "")
                     EXCEPT !.media = file_ids, !.caption = caption]
    IN  IF poll_question # <<>> /\ poll_options # <<>>
        THEN PollAttempts(poll_question, poll_options, env, 1) \o <<media>>
        ELSE <<media>>

\* the bug: the media is sent to the channel twice
ForwardTwice(isAlbum, file_ids, caption, poll_question, poll_options, env) ==
    LET media == [Msg(CHANNEL_ID, IF isAlbum THEN "album" ELSE "photo", "")
                     EXCEPT !.media = file_ids, !.caption = caption]
    IN  <<media, media>>

\* forward_to_channel(context, file_id_or_list, caption, poll_question, poll_options)
ForwardToChannel(isAlbum, file_ids, caption, poll_question, poll_options, env) ==
    LET media == [Msg(CHANNEL_ID, IF isAlbum THEN "album" ELSE "photo", "")
                     EXCEPT !.media = file_ids, !.caption = caption]
    IN  IF poll_question # <<>> /\ poll_options # <<>>
        THEN <<media>> \o PollAttempts(poll_question, poll_options, env, 1)
        ELSE <<media>>

\* the bug: APPROVALS.get instead of APPROVALS.pop, the entry stays
PopKeeps(ap, id) == ap

\* what APPROVALS.pop(approval_id, None) leaves in APPROVALS
Pop(ap, id) == [ap EXCEPT ![id] = NoEntry]

\* approve, from the popped value on: publish, tell the moderator, notify
ApproveRest(s, u, id, approval, env) ==
    IF approval = NoEntry
    THEN [s EXCEPT !.out = <<Answer(u), Edit(u, "not_found")>>]
    ELSE LET isAlbum == approval.kind = "album"
             sent == ForwardToChannel(isAlbum, approval.file_ids,
                        approval.caption,
                        IF approval.poll # <<>> THEN approval.caption ELSE <<>>,
                        approval.poll, env)
             notice == IF approval.submitter # NoUser
                       THEN <<Msg(approval.submitter, "text", "approved_notice")>>
                       ELSE <<>>
         IN  [s EXCEPT !.pubs = [s.pubs EXCEPT ![id] = @ + 1],
                       !.out = <<Answer(u)>> \o sent
                               \o <<Edit(u, IF isAlbum THEN "album_approved"
                                            ELSE "approved")>>
                               \o notice]

\* button: data.startswith('approve:')
Approve(s, u, id, env) ==
    ApproveRest([s EXCEPT !.ap = Pop(s.ap, id)], u, id, s.ap[id], env)

\* disapprove, from the popped value on
DisapproveRest(s, u, id, approval) ==
    IF approval = NoEntry
    THEN [s EXCEPT !.out = <<Answer(u), Edit(u, "disapproved")>>]
    ELSE [s EXCEPT !.rejs = [s.rejs EXCEPT ![id] = @ + 1],
                   !.out = <<Answer(u)>>
                           \o (IF approval.submitter # NoUser
                               THEN <<Msg(approval.submitter, "text",
                                          "disapproved_notice")>>
                               ELSE <<>>)
                           \o <<Edit(u, "disapproved")>>]

\* the bug: the entry is looked up and left in APPROVALS
DisapproveKeeps(s, u, id) == DisapproveRest(s, u, id, s.ap[id])

\* button: data.startswith('disapprove:')
Disapprove(s, u, id) ==
    DisapproveRest([s EXCEPT !.ap = Pop(s.ap, id)], u, id, s.ap[id])

\* handle_image for a photo without media_group_id; reply_text is not in
\* try/except
HandleImage(s, u, f, ok) ==
    LET ask == [Msg(u, "text", "image_choice") EXCEPT
                   !.res = IF ok THEN "ok" ELSE "error"]
    IN  [s EXCEPT !.ud = [s.ud EXCEPT ![u].image_file_id = f],
                  !.out = IF ok THEN <<ask>> ELSE <<ask, Raised>>]

\* the preview and the Confirm / New Input keyboard of handle_caption_poll
Preview(u, isAlbum, file_ids, caption, tag, confirm) ==
    << [Msg(u, IF isAlbum THEN "album" ELSE "photo", "preview") EXCEPT
           !.media = file_ids, !.caption = caption],
       [Msg(u, "text", tag) EXCEPT !.controls = {confirm, "new_input"}] >>

\* handle_caption_poll for a message with text
HandleCaptionPoll(s, u, text) ==
    LET d == s.ud[u]
        parsed == ParsePoll(text)
        isAlbum == d.image_file_ids # <<>>
        file_ids == IF isAlbum THEN d.image_file_ids ELSE <<d.image_file_id>>
    IN  IF ~isAlbum /\ d.image_file_id = 0
        THEN [s EXCEPT !.out = <<Msg(u, "text", "no_image")>>]
        ELSE IF parsed # PollNone
        THEN IF Len(parsed[2]) < 2
             THEN [s EXCEPT !.out = <<Msg(u, "text", "need_two_options")>>]
             ELSE [s EXCEPT
                     !.ud = [s.ud EXCEPT ![u].poll_options = parsed[2],
                                         ![u].poll_question = parsed[1]],
                     !.out = Preview(u, isAlbum, file_ids, parsed[1],
                                     IF isAlbum THEN "preview_album_poll"
                                     ELSE "preview_photo_poll", "confirm_poll")]
        ELSE [s EXCEPT
                !.ud = [s.ud EXCEPT ![u].caption = text],
                !.out = Preview(u, isAlbum, file_ids, text,
                                IF isAlbum THEN "preview_album_caption"
                                ELSE "preview_photo_caption", "confirm_caption")]

\* The dispatcher hands an update to the first handler of main() whose filter
\* matches, and to no other.  Filters.command: the text starts with a command.
IsCommandText(text) == text # <<>> /\ Head(text) = "/"

\* CommandHandler('poll', handle_caption_poll): the command word is 'poll' in
\* any letter case.  A text that is no command goes to relay_messages, which
\* is registered before handle_caption_poll and matches every such text.
IsPollCommand(text) ==
    /\ HasPollPrefix(text)
    /\ Len(text) = Len(CmdToken) \/ IsSpace(text[Len(CmdToken) + 1])

\* start
Start(s, u) == [s EXCEPT !.out = <<Msg(u, "text", "hi")>>]

\* the bug: relay_messages putting the owner's id into what the submitter gets
RelayMessagesSigned(s, u, text, ok) ==
    LET d == s.ud[u]
        res == IF ok THEN "ok" ELSE "error"
    IN  IF d.contact_target # NoContact
        THEN [s EXCEPT !.out =
                 << [Msg(d.contact_target.peer, "text", "admin_message")
                        EXCEPT !.caption = <<u>> \o text, !.res = res] >>
                 \o (IF ok THEN <<>>
                     ELSE <<Msg(u, "text", "delivery_failed")>>)]
        ELSE IF d.contact_source # NoContact
        THEN [s EXCEPT !.out =
                 << [Msg(d.contact_source.peer, "text", "submitter_message")
                        EXCEPT !.caption = text, !.res = res,
                               !.id = d.contact_source.approval_id] >>
                 \o (IF ok THEN <<>>
                     ELSE <<Msg(u, "text", "forward_failed")>>)]
        ELSE [s EXCEPT !.out = <<>>]

\* the bug: relay_messages ending the sender's session on a failed delivery
RelayEndsOnFailure(s, u, text, ok) ==
    LET d == s.ud[u]
    IN  IF d.contact_target # NoContact
        THEN [s EXCEPT !.ud[u].contact_target =
                            IF ok THEN d.contact_target ELSE NoContact,
                       !.out =
                 << [Msg(d.contact_target.peer, "text", "admin_message")
                        EXCEPT !.caption = text,
                               !.res = IF ok THEN "ok" ELSE "error"] >>
                 \o (IF ok THEN <<>>
                     ELSE <<Msg(u, "text", "delivery_failed")>>)]
        ELSE IF d.contact_source # NoContact
        THEN [s EXCEPT !.ud[u].contact_source =
                            IF ok THEN d.contact_source ELSE NoContact,
                       !.out =
                 << [Msg(d.contact_source.peer, "text", "submitter_message")
                        EXCEPT !.caption = text,
                               !.res = IF ok THEN "ok" ELSE "error",
                               !.id = d.contact_source.approval_id] >>
                 \o (IF ok THEN <<>>
                     ELSE <<Msg(u, "text", "forward_failed")>>)]
        ELSE [s EXCEPT !.out = <<>>]

\* relay_messages for a message with text; every send is in try/except
RelayMessages(s, u, text, ok) ==
    LET d == s.ud[u]
        res == IF ok THEN "ok" ELSE "error"
    IN  IF d.contact_target # NoContact
        THEN [s EXCEPT !.out =
                 << [Msg(d.contact_target.peer, "text", "admin_message")
                        EXCEPT !.caption = text, !.res = res] >>
                 \o (IF ok THEN <<>>
                     ELSE <<Msg(u, "text", "delivery_failed")>>)]
        ELSE IF d.contact_source # NoContact
        THEN [s EXCEPT !.out =
                 << [Msg(d.contact_source.peer, "text", "submitter_message")
                        EXCEPT !.caption = text, !.res = res,
                               !.id = d.contact_source.approval_id] >>
                 \o (IF ok THEN <<>>
                     ELSE <<Msg(u, "text", "forward_failed")>>)]
        ELSE [s EXCEPT !.out = <<>>]

\* the "session ended" notification cancel_contact sends to the counterparty;
\* its failure is ignored (except Exception: pass)
Ended(to, tag, nok) ==
    [Msg(to, "text", tag) EXCEPT !.res = IF nok THEN "ok" ELSE "error"]

\* the bug: cancel_contact giving up when the notification fails
CancelContactStopsOnFailure(s, u, nok, ok) ==
    LET d == s.ud[u]
        ended == [Msg(u, "text", "session_ended") EXCEPT
                     !.res = IF ok THEN "ok" ELSE "error"]
    IN  IF d.contact_target # NoContact
        THEN LET sub == d.contact_target.peer
                 ud1 == [s.ud EXCEPT ![u].contact_target = NoContact]
                 ud2 == [ud1 EXCEPT ![sub].contact_source = NoContact]
             IN  IF ~nok
                 THEN [s EXCEPT !.out = <<Ended(sub, "admin_ended", nok)>>]
                 ELSE [s EXCEPT !.ud = ud2,
                           !.out = <<Ended(sub, "admin_ended", nok), ended>>
                                   \o (IF ok THEN <<>> ELSE <<Raised>>)]
        ELSE IF d.contact_source # NoContact
        THEN LET owner == d.contact_source.peer
                 ud1 == [s.ud EXCEPT ![u].contact_source = NoContact]
                 ud2 == [ud1 EXCEPT ![owner].contact_target = NoContact]
             IN  IF ~nok
                 THEN [s EXCEPT !.out = <<Ended(owner, "submitter_ended", nok)>>]
                 ELSE [s EXCEPT !.ud = ud2,
                           !.out = <<Ended(owner, "submitter_ended", nok),
                                     ended>>]
        ELSE [s EXCEPT !.out = <<>>]

\* cancel_contact; nok is the outcome of the notification, ok that of the
\* reply to the caller, which in the owner's branch is not in try/except
CancelContact(s, u, nok, ok) ==
    LET d == s.ud[u]
        ended == [Msg(u, "text", "session_ended") EXCEPT
                     !.res = IF ok THEN "ok" ELSE "error"]
    IN  IF d.contact_target # NoContact
        THEN LET sub == d.contact_target.peer
                 ud1 == [s.ud EXCEPT ![u].contact_target = NoContact]
                 ud2 == [ud1 EXCEPT ![sub].contact_source = NoContact]
             IN  [s EXCEPT !.ud = ud2,
                           !.out = <<Ended(sub, "admin_ended", nok), ended>>
                                   \o (IF ok THEN <<>> ELSE <<Raised>>)]
        ELSE IF d.contact_source # NoContact
        THEN LET owner == d.contact_source.peer
                 ud1 == [s.ud EXCEPT ![u].contact_source = NoContact]
                 ud2 == [ud1 EXCEPT ![owner].contact_target = NoContact]
             IN  [s EXCEPT !.ud = ud2,
                           !.out = <<Ended(owner, "submitter_ended", nok),
                                     ended>>]
        ELSE [s EXCEPT !.out = <<>>]

\* _buffer_media_group run to completion
BufferMediaGroup(s, u, g, cap) ==
    BufStart(BufCancel(BufAppend(BufLookup(s, u, g, cap))))

\* the photos of one album, buffered one after the other
RECURSIVE BufferAll(_, _, _, _)
BufferAll(s, u, g, caps) ==
    IF caps = <<>> THEN s
    ELSE BufferAll(BufferMediaGroup(s, u, g, Head(caps)), u, g, Tail(caps))

\* Entry and Timer objects nothing refers to any more (no group is pending, no
\* handler is in flight, every timer was cancelled or has returned) are gone.
Collect(s) ==
    IF /\ s.h = Idle
       /\ \A g \in GroupIds : s.mg[g] = 0
       /\ \A t \in 1..Len(s.tm) : s.tm[t].st \in {"cancelled", "done"}
    THEN [s EXCEPT !.en = <<>>, !.tm = <<>>]
    ELSE s

\* a timer expires and runs _process_media_group to completion
ProcessMediaGroup(s, t) ==
    LET s1 == ProcPop(TimerExpire(s, t), t)
    IN  IF s1.tm[t].st = "done" THEN s1
        ELSE LET s2 == ProcRead(s1, t)
             IN  IF s2.tm[t].st = "done" THEN s2 ELSE ProcStore(s2, t)

(***************************************************************************)
(* The actions: one handler call, or one timer, run to completion.         *)
(***************************************************************************)
\* the texts a submitter sends: a caption, a poll, a poll with one option
CaptionText == <<"h", "i">>
PollText == <<"/", "p", "o", "l", "l", SP, "Q", BAR, "A", BAR, "B">>
ShortPollText == <<"/", "p", "o", "l", "l", SP, "Q", BAR, "A">>
Texts == {CaptionText, PollText, ShortPollText}

\* the albums a submitter sends in Spec, as the captions of their photos
AlbumShapes == { << <<>>, <<>> >>, << <<>>, <<"c">> >> }

\* who submits and who presses the moderator's buttons in Spec
Submitters == {"a"}
Moderators == {OWNER_CHAT_ID}

albumVars == <<MEDIA_GROUPS, entries, timers, hnd, flushed, arrived, inWindow>>
handlerFrame == <<albumVars, nextPhoto, cb, pollVars>>

CanFinalize == nextId < MaxApprovals

HandleImageCall(u, ok) ==
    /\ hnd.pc = "idle"
    /\ nextPhoto < MaxPhotos
    /\ nextPhoto' = nextPhoto + 1
    /\ SetSt(HandleImage(St, u, nextPhoto + 1, ok))
    /\ UNCHANGED <<albumVars, cb, pollVars>>

\* An album arrives: handle_image passes each of its photos to
\* _buffer_media_group, and the timer started by the last one runs
\* _process_media_group.  The buffering calls touch MEDIA_GROUPS only and no
\* other handler reads it, so they commute with every other handler call:
\* the run is taken in one step, at the moment of the flush.  The threads'
\* interleavings are SpecAlbum's.
AlbumCall(u, g, caps) ==
    /\ hnd.pc = "idle"
    /\ MEDIA_GROUPS[g] = 0
    /\ nextPhoto + Len(caps) <= MaxPhotos
    /\ GroupChat[g] = u
    /\ LET s1 == BufferAll(Alb, u, g, caps)
       IN  SetAlb(Collect(ProcessMediaGroup(s1, Len(s1.tm))))
    /\ UNCHANGED <<albumFrame, ghostVars>>

HandleCaptionPollCall(u, text) ==
    /\ hnd.pc = "idle"
    /\ IsPollCommand(text)
    /\ SetSt(HandleCaptionPoll(St, u, text))
    /\ UNCHANGED handlerFrame

\* query.answer(), the first statement of button, raises
ButtonAnswerFails(u) ==
    /\ hnd.pc = "idle"
    /\ out' = <<[Answer(u) EXCEPT !.res = "error"], Raised>>
    /\ UNCHANGED <<progVars, pubs, rejs, flushed, arrived, inWindow, pollVars>>

AddCaptionPollCall(u) ==
    /\ hnd.pc = "idle"
    /\ SetSt(AddCaptionPoll(St, u))
    /\ UNCHANGED handlerFrame

NoCaptionPollCall(u, ok) ==
    /\ hnd.pc = "idle"
    /\ CanFinalize
    /\ SetSt(NoCaptionPoll(St, u, ok))
    /\ UNCHANGED handlerFrame

ConfirmCaptionCall(u, ok) ==
    /\ hnd.pc = "idle"
    /\ CanFinalize
    /\ SetSt(ConfirmCaption(St, u, ok))
    /\ UNCHANGED handlerFrame

ConfirmPollCall(u, ok) ==
    /\ hnd.pc = "idle"
    /\ CanFinalize
    /\ SetSt(ConfirmPoll(St, u, ok))
    /\ UNCHANGED handlerFrame

NewInputCall(u) ==
    /\ hnd.pc = "idle"
    /\ SetSt(NewInput(St, u))
    /\ UNCHANGED handlerFrame

ContactPostCall(u, id, ping) ==
    /\ hnd.pc = "idle"
    /\ SetSt(ContactPost(St, u, id, ping))
    /\ UNCHANGED handlerFrame

StartCall(u) ==
    /\ hnd.pc = "idle"
    /\ SetSt(Start(St, u))
    /\ UNCHANGED handlerFrame

RelayMessagesCall(u, text, ok) ==
    /\ hnd.pc = "idle"
    /\ ~IsCommandText(text)
    /\ SetSt(RelayMessages(St, u, text, ok))
    /\ UNCHANGED handlerFrame

CancelContactCall(u, nok, ok) ==
    /\ hnd.pc = "idle"
    /\ SetSt(CancelContact(St, u, nok, ok))
    /\ UNCHANGED handlerFrame

ReplyPostCall(u, id, ok) ==
    /\ hnd.pc = "idle"
    /\ SetSt(ReplyPost(St, u, id, ok))
    /\ UNCHANGED handlerFrame

ApproveCall(u, id, env) ==
    /\ hnd.pc = "idle"
    /\ SetSt(Approve(St, u, id, env))
    /\ UNCHANGED handlerFrame

DisapproveCall(u, id) ==
    /\ hnd.pc = "idle"
    /\ SetSt(Disapprove(St, u, id))
    /\ UNCHANGED handlerFrame

Init ==
    /\ InitProgram
    /\ pollArg = NoPollArg
    /\ pollRes = Unset

Next ==
    \/ \E u \in Submitters, ok \in BOOLEAN : HandleImageCall(u, ok)
    \/ \E u \in Submitters, g \in GroupIds, caps \in AlbumShapes :
           AlbumCall(u, g, caps)
    \/ \E u \in Submitters, text \in Texts : HandleCaptionPollCall(u, text)
    \/ \E u \in Submitters \cup Moderators : ButtonAnswerFails(u)
    \/ \E u \in Submitters : AddCaptionPollCall(u)
    \/ \E u \in Submitters, ok \in BOOLEAN : NoCaptionPollCall(u, ok)
    \/ \E u \in Submitters, ok \in BOOLEAN : ConfirmCaptionCall(u, ok)
    \/ \E u \in Submitters, ok \in BOOLEAN : ConfirmPollCall(u, ok)
    \/ \E u \in Submitters : NewInputCall(u)
    \/ \E u \in Moderators, id \in Ids, ping \in PingOutcomes :
           ContactPostCall(u, id, ping)
    \/ \E u \in Moderators, id \in Ids, ok \in BOOLEAN : ReplyPostCall(u, id, ok)
    \/ \E u \in Submitters \cup Moderators : StartCall(u)
    \/ \E u \in Submitters \cup Moderators, text \in Texts, ok \in BOOLEAN :
           RelayMessagesCall(u, text, ok)
    \/ \E u \in Submitters \cup Moderators, nok \in BOOLEAN, ok \in BOOLEAN :
           CancelContactCall(u, nok, ok)
    \/ \E u \in Moderators, id \in Ids :
           \E env \in EnvsOf(APPROVALS[id]) : ApproveCall(u, id, env)
    \/ \E u \in Moderators, id \in Ids : DisapproveCall(u, id)

Spec == Init /\ [][Next]_vars

\* What the dispatcher does with a message that has text, for the texts of
\* Texts: a /poll command is handled by handle_caption_poll, a text that is
\* no command by relay_messages.
TextUpdate(u, text, ok) ==
    IF IsPollCommand(text) THEN HandleCaptionPollCall(u, text)
    ELSE ~IsCommandText(text) /\ RelayMessagesCall(u, text, ok)

\* What the dispatcher does with a message that has a photo: handle_image is
\* the first handler of the group whose filter (Filters.photo) accepts it,
\* and the later relay_messages is not called.
PhotoUpdate(u, ok) == HandleImageCall(u, ok)

(***************************************************************************)
(* The relay between the owner and two submitters: each of them submits a  *)
(* photo, the owner opens sessions with Reply and Contact, both sides send *)
(* texts and /cancel.                                                      *)
(***************************************************************************)
RelaySubmitters == {"a", "b"}

NextRelay ==
    \/ \E u \in RelaySubmitters, ok \in BOOLEAN : HandleImageCall(u, ok)
    \/ \E u \in RelaySubmitters, ok \in BOOLEAN : NoCaptionPollCall(u, ok)
    \/ \E u \in Moderators, id \in Ids, ping \in PingOutcomes :
           ContactPostCall(u, id, ping)
    \/ \E u \in Moderators, id \in Ids, ok \in BOOLEAN : ReplyPostCall(u, id, ok)
    \/ \E u \in RelaySubmitters \cup Moderators, ok \in BOOLEAN :
           RelayMessagesCall(u, CaptionText, ok)
    \/ \E u \in RelaySubmitters \cup Moderators, nok \in BOOLEAN, ok \in BOOLEAN :
           CancelContactCall(u, nok, ok)

SpecRelay == Init /\ [][NextRelay]_vars

(***************************************************************************)
(* approve and disapprove cut at APPROVALS.pop, with two callbacks in      *)
(* flight: every interleaving of their statements, the dispatcher's one    *)
(* callback at a time included.  dict.pop is one step: the interpreter     *)
(* lock is held across it.                                                 *)
(***************************************************************************)
DecisionOps == {"approve", "disapprove"}

\* query.answer(); approval_id = data.split(':', 1)[1];
\* approval = APPROVALS.pop(approval_id, None)
ButtonPopStep(w, u, op, id) ==
    /\ cb[w].pc = "idle"
    /\ cb' = [cb EXCEPT ![w] = [pc |-> "popped", op |-> op, user |-> u,
                                id |-> id, approval |-> APPROVALS[id]]]
    /\ APPROVALS' = Pop(APPROVALS, id)
    /\ out' = <<Answer(u)>>
    /\ UNCHANGED <<user_data, nextId, pubs, rejs, albumVars, nextPhoto, pollVars>>

\* the callback from the popped value to its end
ButtonRestStep(w, env) ==
    /\ cb[w].pc = "popped"
    /\ LET c == cb[w]
           s2 == IF c.op = "approve"
                 THEN ApproveRest(St, c.user, c.id, c.approval, env)
                 ELSE DisapproveRest(St, c.user, c.id, c.approval)
       IN  SetSt([s2 EXCEPT !.out = Tail(s2.out)])
    /\ cb' = [cb EXCEPT ![w] = NoCall]
    /\ UNCHANGED <<albumVars, nextPhoto, pollVars>>

NextModerate ==
    \/ \E u \in Submitters, ok \in BOOLEAN : HandleImageCall(u, ok)
    \/ \E u \in Submitters, ok \in BOOLEAN : NoCaptionPollCall(u, ok)
    \/ \E w \in Workers, u \in Moderators, op \in DecisionOps, id \in Ids :
           ButtonPopStep(w, u, op, id)
    \/ \E w \in Workers :
           \E env \in EnvsOf(cb[w].approval) : ButtonRestStep(w, env)

SpecModerate == Init /\ [][NextModerate]_vars

(***************************************************************************)
(* The album assembler's properties (checked under SpecAlbum).             *)
(***************************************************************************)
Range(f) == {f[i] : i \in DOMAIN f}

\* the file-id sequences of the flushes of key g, in the order they happened
RECURSIVE FlushIdsOf(_, _)
FlushIdsOf(fl, g) ==
    IF fl = <<>> THEN <<>>
    ELSE IF Head(fl).key = g
         THEN <<Head(fl).file_ids>> \o FlushIdsOf(Tail(fl), g)
         ELSE FlushIdsOf(Tail(fl), g)

\* nothing is going on for key g: no item is being buffered and no timer of
\* the key is waiting or running
Quiet(g) ==
    /\ ~(hnd.pc # "idle" /\ hnd.key = g)
    /\ \A t \in TimersOf(timers, g) : timers[t].st \in {"cancelled", "done"}

\* C5: N >= 1 items of one key, each buffered before the timer started by the
\* previous one expires (inWindow: no item of the key arrived after that timer
\* expired, and no timer of the key expired while an item was being buffered):
\* exactly one flush of the key produces a group, and the group is the N items
\* in arrival order.  There is never any other flush, and once the key is
\* quiet the flush has happened.
OneFlushInWindow ==
    \A g \in GroupIds :
        inWindow[g] =>
            /\ FlushIdsOf(flushed, g) \in { <<>>, <<arrived[g]>> }
            /\ (Quiet(g) /\ arrived[g] # <<>>) => FlushIdsOf(flushed, g) = <<arrived[g]>>

\* C5 happens: three items arrived within the window and were flushed as one group
OneFlushInWindowReached ==
    \E g \in GroupIds :
        /\ inWindow[g]
        /\ Len(arrived[g]) >= 3
        /\ FlushIdsOf(flushed, g) = <<arrived[g]>>

\* C6: no item is lost under any interleaving of the timer thread and the
\* handler thread: once a key is quiet, every item appended for it is in a
\* group that was handed to the session store.
NoItemLost ==
    \A g \in GroupIds :
        Quiet(g) =>
            \A i \in 1..Len(arrived[g]) :
                \E j \in 1..Len(flushed) :
                    flushed[j].key = g /\ arrived[g][i] \in Range(flushed[j].file_ids)

\* no item is in two flushes
NoDoubleFlush ==
    \A i, j \in 1..Len(flushed) :
        i < j => Range(flushed[i].file_ids) \cap Range(flushed[j].file_ids) = {}

\* a timer whose pop finds no group ends there: it writes no session, sends
\* no preview, creates no approval entry
LateTimerProducesNothing ==
    [][\A t \in 1..Len(timers) :
          (timers[t].st = "fired" /\ MEDIA_GROUPS[timers[t].key] = 0
                /\ timers'[t].st # "fired")
          => /\ timers'[t].st = "done"
             /\ UNCHANGED <<user_data, APPROVALS, flushed, out>>]_vars

\* C7: a PendingGroup is flushed at most once: no buffered item is handed to
\* the session store in two different flushes, and a timer that fires for a
\* key whose group was already removed produces nothing.
FlushedAtMostOnce == []NoDoubleFlush /\ LateTimerProducesNothing

\* C7 happens: a timer fired, found its key's group already flushed, and ended
FlushedAtMostOnceReached ==
    \E t \in 1..Len(timers) :
        /\ timers[t].st = "done"
        /\ timers[t].entry = 0
        /\ \E j \in 1..Len(flushed) : flushed[j].key = timers[t].key

(***************************************************************************)
(* The moderator's decisions (C1 under SpecModerate, C2 and C3 under Spec).*)
(***************************************************************************)
\* what the moderator is shown for an id that is not in APPROVALS
NotFound(u) == <<Answer(u), Edit(u, "not_found")>>

\* the workers that popped the entry of id and hold it
Holders(id) ==
    {w \in Workers : cb[w].pc = "popped" /\ cb[w].id = id
                     /\ cb[w].approval # NoEntry}

\* C1: for every interleaving of approve and disapprove callbacks on one
\* approval id, at most one of them gets the entry out of APPROVALS and acts
\* on it: the entry is published at most once and never both published and
\* rejected, and once a callback has taken it the id is not in APPROVALS.
AtMostOneDecision ==
    \A id \in Ids :
        /\ pubs[id] + rejs[id] + Cardinality(Holders(id)) <= 1
        /\ pubs[id] + rejs[id] + Cardinality(Holders(id)) = 1
              => APPROVALS[id] = NoEntry

\* C1 happens: an entry was published, and a disapprove callback on the same
\* id has popped nothing
AtMostOneDecisionReached ==
    \E id \in Ids, w \in Workers :
        /\ pubs[id] = 1
        /\ cb[w].pc = "popped"
        /\ cb[w].op = "disapprove"
        /\ cb[w].id = id
        /\ cb[w].approval = NoEntry

\* C2: approve, reply_post and contact_post on an id that is not in APPROVALS
\* tell the moderator 'not found or already processed' and do nothing else:
\* no call to the channel or to a submitter, no relay record, APPROVALS and
\* user_data unchanged.
MissingIdReportsNotFound ==
    [][\A u \in Moderators, id \in Ids :
          (/\ APPROVALS[id] = NoEntry
           /\ \/ \E env \in EnvsOf(APPROVALS[id]) : ApproveCall(u, id, env)
              \/ \E ok \in BOOLEAN : ReplyPostCall(u, id, ok)
              \/ \E ping \in PingOutcomes : ContactPostCall(u, id, ping))
          => /\ out' = NotFound(u)
             /\ UNCHANGED <<APPROVALS, user_data, pubs, rejs>>]_vars

\* C2 happens: an entry was published, and a later callback on its id was
\* answered with not found
MissingIdReportsNotFoundReached ==
    \E id \in Ids :
        /\ pubs[id] = 1
        /\ APPROVALS[id] = NoEntry
        /\ out = NotFound(OWNER_CHAT_ID)

\* C3: disapprove on an id that was drawn and is no longer in APPROVALS tells
\* the moderator 'not found / already processed', as approve does, and does
\* nothing else.
DisapproveMissingReportsNotFound ==
    [][\A u \in Moderators, id \in Ids :
          (id <= nextId /\ APPROVALS[id] = NoEntry /\ DisapproveCall(u, id))
          => /\ out' = NotFound(u)
             /\ UNCHANGED <<APPROVALS, user_data, pubs, rejs>>]_vars

(***************************************************************************)
(* The submission dialog (checked under Spec).                             *)
(***************************************************************************)
\* the submission keys of dictionary d are all absent
Cleared(d) == d = ClearSubmission(d)

\* C4: whenever a finalize action adds an entry to APPROVALS, the submitter's
\* submission keys are cleared when the handler ends, also when the send to
\* the moderator fails.
FinalizeClearsDraft ==
    [][\A id \in Ids :
          (APPROVALS[id] = NoEntry /\ APPROVALS'[id] # NoEntry)
          => Cleared(user_data'[APPROVALS'[id].submitter])]_vars

\* the consequence C4 draws: the same pending media is never finalized into a
\* second entry
NoSecondEntry ==
    \A i, j \in Ids :
        (i # j /\ APPROVALS[i] # NoEntry /\ APPROVALS[j] # NoEntry)
        => APPROVALS[i].file_ids # APPROVALS[j].file_ids

\* C8: enrichment is last-write-wins: after a text is taken as a draft for a
\* single photo, the session holds the caption draft or the poll draft, never
\* both.  (A single photo's session gets a caption from a caption draft only.)
LastDraftWins ==
    [][\A u \in Submitters, text \in Texts :
          (/\ HandleCaptionPollCall(u, text)
           /\ user_data[u].image_file_ids = <<>>
           /\ user_data[u].image_file_id # 0)
          => ~(/\ user_data'[u].caption # <<>>
               /\ user_data'[u].poll_options # <<>>)]_vars

\* a call in msgs presents a Confirm control
OffersConfirm(msgs) ==
    \E i \in 1..Len(msgs) :
        msgs[i].controls \cap {"confirm_caption", "confirm_poll"} # {}

\* C9: '/poll Q|A', a poll command with fewer than two options, is rejected:
\* the submitter is told, no draft is stored and no Confirm control is shown.
ShortPollRejected ==
    [][\A u \in Submitters :
          HandleCaptionPollCall(u, ShortPollText)
          => /\ user_data' = user_data
             /\ ~OffersConfirm(out')]_vars

(***************************************************************************)
(* parse_poll (checked under SpecPoll).                                    *)
(***************************************************************************)
\* the generated input starts with the command token's slash
HasSlash(a) == a.cmd # <<>> /\ Head(a.cmd) = "/"

\* the segments' cores that are not empty, in their order
OptionsOf(a) ==
    SelectSeq([i \in 1..Len(a.segs) |-> a.segs[i].core], LAMBDA c : c # <<>>)

\* what C10 says parse_poll returns for the generated input a
Expected(a) ==
    IF Len(OptionsOf(a)) >= 2 THEN <<a.q.core, OptionsOf(a)>> ELSE PollNone

\* C10: for every input '/poll[@bot] <q>|<s1>|...|<sk>' parse_poll returns the
\* trimmed question and the trimmed non-empty segments in their order when
\* at least two remain, and None otherwise.
ParsePollAsSpecified ==
    (pollRes # Unset /\ HasSlash(pollArg)) => pollRes = Expected(pollArg)

\* the generated input holds no line break
SingleLine(a) ==
    /\ \A i \in 1..Len(Render(a)) : Render(a)[i] # NL

\* what does hold: parse_poll returns what C10 says for inputs of one line
ParsePollOneLine ==
    (pollRes # Unset /\ HasSlash(pollArg) /\ SingleLine(pollArg))
        => pollRes = Expected(pollArg)

(***************************************************************************)
(* New Input (checked under Spec).                                         *)
(***************************************************************************)
\* the session of u holds a caption draft or a poll draft
HasDraft(u) == user_data[u].caption # <<>> \/ user_data[u].poll_options # <<>>

\* C11: new_input never creates an entry: handling it leaves APPROVALS and the
\* drawn ids unchanged, publishes and rejects nothing, calls neither the
\* moderator nor the channel, and shows the submitter the guidance for the
\* replacement text.
NewInputCreatesNothing ==
    [][\A u \in Submitters :
          NewInputCall(u)
          => /\ APPROVALS' = APPROVALS
             /\ nextId' = nextId
             /\ pubs' = pubs /\ rejs' = rejs
             /\ \A i \in 1..Len(out') : out'[i].to = u
             /\ out' = <<Answer(u), Edit(u, "GUIDE_TEXT")>>]_vars

\* C11 happens: the guidance was shown to a submitter whose session holds a
\* draft, the state New Input is pressed in
NewInputCreatesNothingReached ==
    \E u \in Submitters :
        /\ HasDraft(u)
        /\ out = <<Answer(u), Edit(u, "GUIDE_TEXT")>>

\* C12: new_input discards the current draft: after it the session holds no
\* caption draft and no poll draft.  (Stated for a single photo, whose
\* session gets a caption from handle_caption_poll only.)
NewInputDiscardsDraft ==
    [][\A u \in Submitters :
          (/\ user_data[u].image_file_ids = <<>>
           /\ HasDraft(u)
           /\ NewInputCall(u))
          => /\ user_data'[u].caption = <<>>
             /\ user_data'[u].poll_options = <<>>
             /\ user_data'[u].poll_question = <<>>]_vars

(***************************************************************************)
(* Text as enrichment input, and the single photo end to end (under Spec). *)
(***************************************************************************)
\* the session of u holds pending media: a single photo or an album
HasMedia(u) ==
    user_data[u].image_file_ids # <<>> \/ user_data[u].image_file_id # 0

\* C13: when a submitter with pending media sends a text that is no command,
\* the text becomes the session's caption draft and a Confirm control is
\* presented.
PlainTextBecomesCaption ==
    [][\A u \in Submitters, text \in Texts, ok \in BOOLEAN :
          (HasMedia(u) /\ ~IsCommandText(text) /\ TextUpdate(u, text, ok))
          => /\ user_data'[u].caption = text
             /\ OffersConfirm(out')]_vars

\* the calls of msgs that go to the channel
ChannelCalls(msgs) == SelectSeq(msgs, LAMBDA m : m.to = CHANNEL_ID)

\* the session of u holds a single photo and nothing else
OnlySinglePhoto(u) ==
    /\ user_data[u].image_file_ids = <<>>
    /\ user_data[u].image_file_id # 0

\* C14: a submitter sends one photo and chooses 'No': the entry made is that
\* photo without caption or poll.  When the moderator approves such an entry
\* the channel is sent exactly one photo message, that photo, and no poll,
\* the submitter is sent the approval notice and the id is out of APPROVALS;
\* no entry is forwarded to the channel twice.
SinglePhotoEndToEnd ==
    /\ [](\A id \in Ids : pubs[id] <= 1)
    /\ [][\A u \in Submitters :
             (OnlySinglePhoto(u) /\ NoCaptionPollCall(u, TRUE))
             => APPROVALS'[nextId + 1] =
                   Entry("single", <<user_data[u].image_file_id>>, <<>>, <<>>, u)]_vars
    /\ [][\A u \in Moderators, id \in Ids :
             LET e == APPROVALS[id]
             IN  (/\ e.kind = "single" /\ e.caption = <<>> /\ e.poll = <<>>
                  /\ \E env \in EnvsOf(e) : ApproveCall(u, id, env))
                 => /\ ChannelCalls(out') =
                          << [Msg(CHANNEL_ID, "photo", "") EXCEPT
                                 !.media = e.file_ids] >>
                    /\ \E i \in 1..Len(out') :
                          out'[i] = Msg(e.submitter, "text", "approved_notice")
                    /\ APPROVALS'[id] = NoEntry
                    /\ pubs'[id] = 1]_vars

\* C14 happens: a single photo was approved and forwarded
SinglePhotoEndToEndReached ==
    \E id \in Ids, f \in 1..MaxPhotos, u \in Submitters :
        /\ pubs[id] = 1
        /\ APPROVALS[id] = NoEntry
        /\ out = << Answer(OWNER_CHAT_ID),
                    [Msg(CHANNEL_ID, "photo", "") EXCEPT !.media = <<f>>],
                    Edit(OWNER_CHAT_ID, "approved"),
                    Msg(u, "text", "approved_notice") >>

\* C15: disapproving an entry that is in APPROVALS removes it, sends the
\* rejection notice to its submitter and sends nothing to the channel; a
\* rejected id is not in APPROVALS and is never forwarded to the channel.
DisapproveNeverPublishes ==
    /\ [](\A id \in Ids :
             rejs[id] >= 1 => (pubs[id] = 0 /\ APPROVALS[id] = NoEntry))
    /\ [][\A u \in Moderators, id \in Ids :
             LET e == APPROVALS[id]
             IN  (e # NoEntry /\ DisapproveCall(u, id))
                 => /\ APPROVALS'[id] = NoEntry
                    /\ \E i \in 1..Len(out') :
                          out'[i] = Msg(e.submitter, "text", "disapproved_notice")
                    /\ ChannelCalls(out') = <<>>
                    /\ pubs' = pubs
                    /\ rejs'[id] = 1]_vars

\* C15 happens: an entry was disapproved and its submitter was sent the notice
DisapproveNeverPublishesReached ==
    \E id \in Ids, u \in Submitters :
        /\ rejs[id] = 1
        /\ APPROVALS[id] = NoEntry
        /\ out = << Answer(OWNER_CHAT_ID),
                    Msg(u, "text", "disapproved_notice"),
                    Edit(OWNER_CHAT_ID, "disapproved") >>

(***************************************************************************)
(* The relay sessions                                                      *)
(***************************************************************************)
\* owner o and submitter s hold the two records of one session on approval id
Linked(o, s, id) ==
    /\ user_data[o].contact_target = [approval_id |-> id, peer |-> s]
    /\ user_data[s].contact_source = [approval_id |-> id, peer |-> o]

\* the messages of msgs that are sent to chat c
CallsTo(msgs, c) == SelectSeq(msgs, LAMBDA m : m.to = c)

\* C16: when the test message of reply_post or contact_post to the submitter
\* of a present entry fails, no record of any user is written and the
\* moderator's message is edited to the manual-contact hint.
ProbeFailureShowsHint ==
    [][\A u \in Moderators, id \in Ids :
          APPROVALS[id] # NoEntry
          => /\ ReplyPostCall(u, id, FALSE)
                => /\ user_data' = user_data
                   /\ \E i \in 1..Len(out') : out'[i] = Edit(u, "reply_failed")
             /\ \A ping \in PingOutcomes \ {"ok"} :
                   ContactPostCall(u, id, ping)
                   => /\ user_data' = user_data
                      /\ \E i \in 1..Len(out') :
                            out'[i] = Edit(u, "contact_failed")]_vars

\* C17: a submitter holds the submitter-side record naming owner o and
\* approval id exactly when o holds the owner-side record naming that
\* submitter and id.
RelaySymmetric ==
    \A o \in Users, s \in Users, id \in Ids :
        user_data[s].contact_source = [approval_id |-> id, peer |-> o]
        <=> user_data[o].contact_target = [approval_id |-> id, peer |-> s]

\* C18: /cancel from the owner or from the linked submitter of a session
\* removes the owner-side record of the owner and the submitter-side record
\* of the submitter, and exactly one "session ended" notification is sent to
\* the other party, whether that notification is delivered or fails.
CancelClearsBothSides ==
    [][\A o \in Moderators, s \in RelaySubmitters, id \in Ids :
          \A nok \in BOOLEAN, ok \in BOOLEAN :
             /\ (Linked(o, s, id) /\ CancelContactCall(o, nok, ok))
                => /\ user_data'[o].contact_target = NoContact
                   /\ user_data'[s].contact_source = NoContact
                   /\ CallsTo(out', s) = <<Ended(s, "admin_ended", nok)>>
             /\ (Linked(o, s, id) /\ CancelContactCall(s, nok, ok))
                => /\ user_data'[o].contact_target = NoContact
                   /\ user_data'[s].contact_source = NoContact
                   /\ CallsTo(out', o) = <<Ended(o, "submitter_ended", nok)>>]_vars

\* C18 happens: the submitter of a session sent /cancel, the notification
\* to the owner failed, and neither side holds a record
CancelClearsBothSidesReached ==
    \E s \in RelaySubmitters :
        /\ Len(out) = 2
        /\ out[1] = Ended(OWNER_CHAT_ID, "submitter_ended", FALSE)
        /\ user_data[s].contact_source = NoContact
        /\ user_data[OWNER_CHAT_ID].contact_target = NoContact
        /\ Len(CallsTo(out, s)) = 1

\* the counterparty of u in the session u holds a record of
PeerOf(d) ==
    IF d.contact_target # NoContact THEN d.contact_target.peer
    ELSE d.contact_source.peer

\* C19: when the delivery of a relayed message fails, the sender is sent a
\* failure notice, no record of any user changes, and the sender's next
\* message is sent to the same counterparty.
FailedRelayKeepsSession ==
    [][\A u \in Users :
          LET d == user_data[u]
              later == RelayMessages([St EXCEPT !.ud = user_data'], u,
                                     CaptionText, TRUE).out
          IN  ( /\ d.contact_target # NoContact \/ d.contact_source # NoContact
                /\ RelayMessagesCall(u, CaptionText, FALSE) )
              => /\ user_data' = user_data
                 /\ Len(out') = 2
                 /\ out'[1].to = PeerOf(d) /\ out'[1].res = "error"
                 /\ out'[2].to = u
                 /\ out'[2].tag \in {"delivery_failed", "forward_failed"}
                 /\ Len(later) = 1
                 /\ later[1].to = PeerOf(d)
                 /\ later[1].caption = CaptionText
                 /\ later[1].res = "ok"]_vars

\* C19 happens: a submitter's message could not be forwarded to the owner,
\* the submitter was told, and the session is still there
FailedRelayKeepsSessionReached ==
    \E s \in RelaySubmitters, id \in Ids :
        /\ Linked(OWNER_CHAT_ID, s, id)
        /\ Len(out) = 2
        /\ out[1].tag = "submitter_message" /\ out[1].res = "error"
        /\ out[2] = Msg(s, "text", "forward_failed")

\* C20: a photo sent by a submitter who holds a submitter-side record is
\* forwarded to the owner of that record.
SessionPhotoForwarded ==
    [][\A u \in RelaySubmitters, ok \in BOOLEAN :
          ( /\ user_data[u].contact_source # NoContact
            /\ PhotoUpdate(u, ok) )
          => CallsTo(out', user_data[u].contact_source.peer) # <<>>]_vars

\* a second identity the owner could have: a user who does nothing else
OtherOwner == "b"

\* user x when the identities p and q change places
SwapId(x, p, q) == IF x = p THEN q ELSE IF x = q THEN p ELSE x

\* the state s with the identities p and q exchanged
SwapUsers(s, p, q) ==
    [s EXCEPT !.ud = [u \in Users |->
                         LET d == s.ud[SwapId(u, p, q)]
                         IN  [d EXCEPT
                                !.contact_target.peer = SwapId(@, p, q),
                                !.contact_source.peer = SwapId(@, p, q)]]]

\* handler results t1 (owner p) and t2 (owner q) deliver the same to sub and
\* leave states that again differ in the owner's identity only
SameForSubmitter(t1, t2, sub, p, q) ==
    /\ CallsTo(t1.out, sub) = CallsTo(t2.out, sub)
    /\ SwapUsers(t1, p, q).ud = t2.ud

\* C21: in every reachable state, Reply, Contact, a relayed text and /cancel
\* done by the owner deliver to the submitter exactly what they deliver when
\* another identity is the owner, and the two resulting states again differ in
\* the owner's identity only.
OwnerAnonymity ==
    LET p == OWNER_CHAT_ID
        q == OtherOwner
        s1 == St
        s2 == SwapUsers(St, p, q)
    IN  \A sub \in Submitters :
           /\ \A id \in Ids, ok \in BOOLEAN :
                 SameForSubmitter(ReplyPost(s1, p, id, ok),
                                  ReplyPost(s2, q, id, ok), sub, p, q)
           /\ \A id \in Ids, ping \in PingOutcomes :
                 SameForSubmitter(ContactPost(s1, p, id, ping),
                                  ContactPost(s2, q, id, ping), sub, p, q)
           /\ \A ok \in BOOLEAN :
                 SameForSubmitter(RelayMessages(s1, p, CaptionText, ok),
                                  RelayMessages(s2, q, CaptionText, ok),
                                  sub, p, q)
           /\ \A nok \in BOOLEAN, ok \in BOOLEAN :
                 SameForSubmitter(CancelContact(s1, p, nok, ok),
                                  CancelContact(s2, q, nok, ok), sub, p, q)

\* C21 happens: the owner's text was delivered to the submitter of a session
OwnerAnonymityReached ==
    \E s \in Submitters, id \in Ids :
        /\ Linked(OWNER_CHAT_ID, s, id)
        /\ out = << [Msg(s, "text", "admin_message")
                        EXCEPT !.caption = CaptionText, !.res = "ok"] >>

(***************************************************************************)
(* Submission keys and relay keys                                          *)
(***************************************************************************)
\* the relay records of every user
RelayKeys(ud) ==
    [u \in Users |-> <<ud[u].contact_target, ud[u].contact_source>>]

\* the submission keys of every user
SubmissionKeys(ud) ==
    [u \in Users |-> <<ud[u].image_file_ids, ud[u].image_file_id,
                       ud[u].caption, ud[u].poll_options,
                       ud[u].poll_question>>]

\* C22: No, Confirm caption and Confirm poll leave every user's relay records
\* as they were; Reply, Contact and /cancel leave every user's pending media
\* and caption / poll drafts as they were.
FinalizeAndRelayAreSeparate ==
    [][/\ \/ RelayKeys(user_data') = RelayKeys(user_data)
          \/ ~ \E u \in Submitters, ok \in BOOLEAN :
                  \/ NoCaptionPollCall(u, ok)
                  \/ ConfirmCaptionCall(u, ok)
                  \/ ConfirmPollCall(u, ok)
       /\ \/ SubmissionKeys(user_data') = SubmissionKeys(user_data)
          \/ ~ \E u \in Users, id \in Ids :
                  \/ \E ok \in BOOLEAN : ReplyPostCall(u, id, ok)
                  \/ \E ping \in PingOutcomes : ContactPostCall(u, id, ping)
                  \/ \E nok \in BOOLEAN, ok \in BOOLEAN :
                        CancelContactCall(u, nok, ok)]_vars

\* C22 happens: a submitter who holds a relay record submitted a photo and
\* the submission keys were cleared
FinalizeAndRelayAreSeparateReached ==
    \E u \in Submitters, id \in Ids :
        /\ Linked(OWNER_CHAT_ID, u, id)
        /\ Len(out) = 3
        /\ out[3] = Edit(u, "image_forwarded")
        /\ user_data[u].image_file_id = 0

(***************************************************************************)
(* Publication                                                             *)
(***************************************************************************)
\* C23: the channel calls of an approve of a present entry start with one
\* send of the entry's media (photo or album); every later channel call is a
\* send_poll with the entry's options and no media; an entry without a poll
\* has no send_poll.
MediaBeforePoll ==
    [][\A id \in Ids :
          LET e == APPROVALS[id]
              ch == ChannelCalls(out')
          IN  ( /\ e # NoEntry
                /\ APPROVALS'[id] = NoEntry
                /\ \E u \in Moderators, env \in EnvsOf(e) : ApproveCall(u, id, env) )
              => /\ Len(ch) >= 1
                 /\ ch[1].kind = (IF e.kind = "album" THEN "album" ELSE "photo")
                 /\ ch[1].media = e.file_ids
                 /\ \A i \in 2..Len(ch) :
                       /\ ch[i].kind = "poll"
                       /\ ch[i].options = e.poll
                       /\ ch[i].media = <<>>
                 /\ e.poll = <<>> => Len(ch) = 1
                 /\ e.poll # <<>> /\ e.caption # <<>> => Len(ch) >= 2]_vars

\* C23 happens: an album with a poll was approved, and the channel got the
\* album and then the poll
MediaBeforePollReached ==
    LET ch == ChannelCalls(out)
    IN  /\ Len(ch) = 2
        /\ ch[1].kind = "album"
        /\ ch[2].kind = "poll"
        /\ ch[2].res = "ok"

(***************************************************************************)
(* The moderator's notification                                            *)
(***************************************************************************)
\* C24: a step that puts a new entry into APPROVALS sends the owner a message
\* bound to the entry's id that carries the Approve, Disapprove, Reply and
\* Contact controls.
NotificationHasAllControls ==
    [][\A id \in Ids :
          (APPROVALS[id] = NoEntry /\ APPROVALS'[id] # NoEntry)
          => \E i \in 1..Len(out') :
                /\ out'[i].to = OWNER_CHAT_ID
                /\ out'[i].id = id
                /\ out'[i].controls = FullControls]_vars

(***************************************************************************)
(* Transport failures                                                      *)
(***************************************************************************)
\* C25: no handler ends with an exception right after a transport call of
\* its own that failed.
FailedCallStaysInHandler ==
    \A i \in 2..Len(out) : out[i] = Raised => out[i - 1].res # "error"

(***************************************************************************)
(* The number of options of a poll (checked under SpecPollMany)            *)
(***************************************************************************)
\* C26: a poll parse_poll accepts has at least 2 and at most 10 options.
AcceptedPollHasTwoToTenOptions ==
    Len(pollRes) = 2 => (Len(pollRes[2]) >= 2 /\ Len(pollRes[2]) <= 10)

(***************************************************************************)
(* The debounce timers (checked under SpecAlbum)                           *)
(***************************************************************************)
\* the timers of key g that were started and have neither expired nor been
\* cancelled
LiveTimers(g) == {t \in TimersOf(timers, g) : timers[t].st = "waiting"}

\* C27: every group key has at most one live timer.
AtMostOneLiveTimer == \A g \in GroupIds : Cardinality(LiveTimers(g)) <= 1

(***************************************************************************)
(* The poll retries                                                        *)
(***************************************************************************)
\* the send_poll calls among msgs
PollCalls(msgs) == SelectSeq(msgs, LAMBDA m : m.kind = "poll")

\* C28: an approve of a present entry makes at most 3 send_poll calls; every
\* call but the last timed out; after three calls, or a call that did not
\* time out, no further call is made; and whatever the calls did, the entry is
\* removed, the moderator's message is edited to "approved" and the submitter
\* is sent the approval notice.
PollRetriedOnTimeoutOnly ==
    [][\A id \in Ids :
          LET e == APPROVALS[id]
              polls == PollCalls(out')
              n == Len(polls)
          IN  ( /\ e # NoEntry
                /\ APPROVALS'[id] = NoEntry
                /\ \E u \in Moderators, env \in EnvsOf(e) : ApproveCall(u, id, env) )
              => /\ n <= 3
                 /\ \A i \in 1..(n - 1) : polls[i].res = "timeout"
                 /\ (n >= 1 /\ polls[n].res = "timeout") => n = 3
                 /\ (e.poll # <<>> /\ e.caption # <<>>) => n >= 1
                 /\ Len(out') >= 2
                 /\ out'[Len(out') - 1] =
                       Edit(OWNER_CHAT_ID, IF e.kind = "album"
                                           THEN "album_approved" ELSE "approved")
                 /\ out'[Len(out')] = Msg(e.submitter, "text", "approved_notice")
                 /\ pubs'[id] = pubs[id] + 1]_vars

\* C28 happens: send_poll timed out three times and the approve completed
PollRetriedOnTimeoutOnlyReached ==
    LET polls == PollCalls(out)
    IN  /\ Len(polls) = 3
        /\ \A i \in 1..3 : polls[i].res = "timeout"
        /\ Len(out) = 7
        /\ out[6] = Edit(OWNER_CHAT_ID, "album_approved")
        /\ out[7].tag = "approved_notice"

(***************************************************************************)
(* The caption of a flushed group (checked under SpecAlbum)                *)
(***************************************************************************)
\* the items of the entry timer t popped that its flush stores
FlushedItems(t) ==
    SelectSeq(entries[timers[t].entry].items,
              LAMBDA it : \E i \in 1..Len(timers[t].file_ids) :
                             timers[t].file_ids[i] = it.file_id)

\* C29: the step of _process_media_group that stores a group leaves as the
\* user's caption the first non-empty caption of the stored items, and no
\* caption when none of them has one.
FlushStoresFirstCaption ==
    [][\A t \in 1..Len(timers) :
          (timers[t].st = "read" /\ ProcessStoreStep(t))
          => user_data'[entries[timers[t].entry].user_id].caption
                = FirstCaption(FlushedItems(t))]_vars

(***************************************************************************)
(* Liveness of the album assembler (checked under SpecAlbumLive)           *)
(***************************************************************************)
\* entry e was popped by a timer whose function stored its items
EntryFlushed(e) ==
    \E t \in 1..Len(timers) :
        /\ timers[t].entry = e
        /\ timers[t].st = "done"
        /\ timers[t].file_ids # <<>>

\* C30: a group that is in MEDIA_GROUPS with at least one item, a single
\* item included, is eventually removed from MEDIA_GROUPS and stored in the
\* sender's user_data; eventually MEDIA_GROUPS is empty for good.
BufferedGroupIsFlushed ==
    /\ \A g \in GroupIds, e \in 1..MaxPhotos :
          ( /\ MEDIA_GROUPS[g] = e
            /\ entries[e].items # <<>> )
          ~> ( MEDIA_GROUPS[g] # e /\ EntryFlushed(e) )
    /\ <>[](\A g \in GroupIds : MEDIA_GROUPS[g] = 0)

\* C30 happens: a group of a single item was flushed and nothing is buffered
BufferedGroupIsFlushedReached ==
    /\ \A g \in GroupIds : MEDIA_GROUPS[g] = 0
    /\ \E t \in 1..Len(timers) :
          /\ timers[t].st = "done"
          /\ timers[t].entry # 0
          /\ Len(timers[t].file_ids) = 1
          /\ Len(entries[timers[t].entry].items) = 1

(***************************************************************************)
(* The lifetime of an entry                                                *)
(***************************************************************************)
\* C31: an entry that is in APPROVALS is removed or changed only by a step
\* that is approve or disapprove on its id; every other step (Reply, Contact,
\* relay, /cancel, photos, albums, texts, the submitter's buttons) leaves it
\* as it is.
EntryLeavesOnlyByDecision ==
    [][\A id \in Ids :
          (APPROVALS[id] # NoEntry /\ APPROVALS'[id] # APPROVALS[id])
          => /\ APPROVALS'[id] = NoEntry
             /\ \E u \in Moderators :
                   \/ DisapproveCall(u, id)
                   \/ \E env \in EnvsOf(APPROVALS[id]) : ApproveCall(u, id, env)]_vars

\* C31 happens: a session on an entry was opened and ended by the owner's
\* /cancel, and the entry is still pending
EntryLeavesOnlyByDecisionReached ==
    \E id \in Ids, s \in Submitters :
        /\ APPROVALS[id] # NoEntry
        /\ APPROVALS[id].submitter = s
        /\ Len(out) = 2
        /\ out[1].to = s /\ out[1].tag = "admin_ended"
        /\ user_data[OWNER_CHAT_ID].contact_target = NoContact

(***************************************************************************)
(* Which media a finalize takes                                            *)
(***************************************************************************)
\* the session of u holds an album and a single photo that was sent after
\* the album was stored (file ids are numbered in the order of arrival)
PhotoAfterAlbum(u) ==
    LET d == user_data[u]
    IN  /\ d.image_file_id # 0
        /\ d.image_file_ids # <<>>
        /\ \A i \in 1..Len(d.image_file_ids) :
              d.image_file_ids[i] < d.image_file_id

\* C32: when a submitter's session holds an album and a single photo sent
\* after it, a step that creates an entry for that submitter creates it with
\* the single photo.
LatestSubmissionWins ==
    [][\A u \in Submitters, id \in Ids :
          ( /\ APPROVALS[id] = NoEntry
            /\ APPROVALS'[id] # NoEntry
            /\ APPROVALS'[id].submitter = u
            /\ PhotoAfterAlbum(u) )
          => APPROVALS'[id].file_ids = <<user_data[u].image_file_id>>]_vars

(***************************************************************************)
(* Drafts and later media                                                  *)
(***************************************************************************)
\* the part of the state the handlers touch, after the step
StNext == [ap |-> APPROVALS', ud |-> user_data', nid |-> nextId',
           pubs |-> pubs', rejs |-> rejs', out |-> out']

\* new media enters the session of u: a single photo, or an album none of
\* whose photos has a caption of its own
NewMediaStep(u) ==
    \/ \E ok \in BOOLEAN : HandleImageCall(u, ok)
    \/ \E g \in GroupIds, caps \in AlbumShapes :
          /\ \A i \in 1..Len(caps) : caps[i] = <<>>
          /\ AlbumCall(u, g, caps)

\* entry e holds a photo that arrived in this step
HoldsNewMedia(e) ==
    /\ e # NoEntry
    /\ \E i \in 1..Len(e.file_ids) : e.file_ids[i] > nextPhoto

\* C33: when new media enters a session that holds a caption or poll draft
\* entered for earlier media, a Confirm pressed next creates no entry that
\* holds the new media together with that draft.
DraftNotCarriedOver ==
    [][\A u \in Submitters :
          ( /\ nextPhoto' # nextPhoto
            /\ HasDraft(u)
            /\ nextId' < MaxApprovals
            /\ NewMediaStep(u) )
          => LET d == user_data[u]
                 id == nextId' + 1
                 byCaption == ConfirmCaption(StNext, u, TRUE).ap[id]
                 byPoll == ConfirmPoll(StNext, u, TRUE).ap[id]
             IN  /\ ~ ( /\ d.caption # <<>>
                        /\ HoldsNewMedia(byCaption)
                        /\ byCaption.caption = d.caption )
                 /\ ~ ( /\ d.poll_options # <<>>
                        /\ HoldsNewMedia(byPoll)
                        /\ byPoll.poll = d.poll_options )]_vars

(***************************************************************************)
(* Who may act as the moderator                                            *)
(***************************************************************************)
\* C34: in every reachable state, an approve, disapprove, reply_post or
\* contact_post callback of a user who is not the owner leaves APPROVALS
\* as it is, publishes and rejects nothing, and writes no relay record.
OnlyOwnerModerates ==
    \A u \in Users \ {OWNER_CHAT_ID}, id \in Ids :
        LET NoEffect(t) == /\ t.ap = APPROVALS
                           /\ t.pubs = pubs
                           /\ t.rejs = rejs
                           /\ RelayKeys(t.ud) = RelayKeys(user_data)
                           /\ ChannelCalls(t.out) = <<>>
        IN  /\ \A env \in EnvsOf(APPROVALS[id]) : NoEffect(Approve(St, u, id, env))
            /\ NoEffect(Disapprove(St, u, id))
            /\ \A ok \in BOOLEAN : NoEffect(ReplyPost(St, u, id, ok))
            /\ \A ping \in PingOutcomes : NoEffect(ContactPost(St, u, id, ping))

(***************************************************************************)
(* /cancel of a submitter whose session was replaced (under SpecRelay)     *)
(***************************************************************************)
\* C35: when the owner's record names submitter b and another submitter a,
\* who still holds a submitter-side record, sends /cancel, the owner's record
\* still names b afterwards and b's record is as it was.
CancelEndsOwnSessionOnly ==
    [][\A a \in RelaySubmitters, b \in RelaySubmitters, id \in Ids :
          ( /\ a # b
            /\ user_data[a].contact_source # NoContact
            /\ Linked(OWNER_CHAT_ID, b, id)
            /\ user_data'[a] # user_data[a]
            /\ \E nok \in BOOLEAN, ok \in BOOLEAN : CancelContactCall(a, nok, ok) )
          => /\ user_data'[OWNER_CHAT_ID].contact_target
                   = user_data[OWNER_CHAT_ID].contact_target
             /\ user_data'[b].contact_source = user_data[b].contact_source]_vars

(***************************************************************************)
(* Content integrity from submission to channel                            *)
(***************************************************************************)
\* the media a session holds as its latest submission: the album, or the
\* single photo when there is no album or the photo was sent after it
PendingMedia(u) ==
    LET d == user_data[u]
    IN  IF d.image_file_ids = <<>> \/ PhotoAfterAlbum(u)
        THEN <<d.image_file_id>>
        ELSE d.image_file_ids

\* C36: a step that creates an entry stores the submitter's pending media in
\* it, in order; a step that publishes an entry sends as its first channel
\* call the entry's media, in order, with the confirmed caption when the
\* entry came from a confirmed caption draft and with no caption otherwise.
PublishedAsSubmitted ==
    [][\A id \in Ids :
          /\ ( /\ APPROVALS[id] = NoEntry
               /\ APPROVALS'[id] # NoEntry )
             => APPROVALS'[id].file_ids
                    = PendingMedia(APPROVALS'[id].submitter)
          /\ ( /\ APPROVALS[id] # NoEntry
               /\ pubs'[id] # pubs[id] )
             => LET e  == APPROVALS[id]
                    ch == ChannelCalls(out')
                IN  /\ Len(ch) >= 1
                    /\ ch[1].media = e.file_ids
                    /\ ch[1].caption
                          = (IF e.poll = <<>> THEN e.caption ELSE <<>>)]_vars

=============================================================================
